---- MODULE Spec2Model ----
(***************************************************************************)
(* Model of cloudtrail-console-actions (main.go): the S3 event handler     *)
(* that fetches CloudTrail log objects, filters their records down to the  *)
(* console actions, logs those and posts them to a Slack webhook.          *)
(*                                                                         *)
(* Strings are TLA+ strings; a character is a string of length one, read   *)
(* with At.  A JSON value decoded into interface{} is a record [t, s]:     *)
(* t is "absent" (no such key), "null" (JSON null), "num" (a JSON number,  *)
(* standing for every value that is not a string) or "str" (a string, s).  *)
(***************************************************************************)
EXTENDS Integers, Sequences, FiniteSets, TLC

(***************************************************************************)
(* Bounds of the model.                                                    *)
(***************************************************************************)
\* S3 records (storage references) of one S3 event.
MaxRefs == 2
\* Records of one CloudTrail log file, in the pipeline specification.
MaxRecords == 2
\* Records of the log file, in the specification that ranges over all records.
MaxFileRecords == 1

(***************************************************************************)
(* package strings                                                         *)
(***************************************************************************)
At(s, i) == SubSeq(s, i, i)

HasPrefix(s, prefix) ==
    Len(s) >= Len(prefix) /\ SubSeq(s, 1, Len(prefix)) = prefix

HasSuffix(s, suffix) ==
    Len(s) >= Len(suffix) /\ SubSeq(s, Len(s) - Len(suffix) + 1, Len(s)) = suffix

\* strings.Index(s, substr) + 1; 0 when substr is not in s.
Index(s, substr) ==
    LET hits == { i \in 1..(Len(s) - Len(substr) + 1) :
                      SubSeq(s, i, i + Len(substr) - 1) = substr }
    IN  IF hits = {} THEN 0 ELSE CHOOSE i \in hits : \A j \in hits : i <= j

Contains(s, substr) == Index(s, substr) # 0

\* strings.Split(s, sep): the pieces of s between the occurrences of the
\* one-character separator sep.
RECURSIVE Split(_, _)
Split(s, sep) ==
    LET i == Index(s, sep)
    IN  IF i = 0 THEN <<s>>
        ELSE <<SubSeq(s, 1, i - 1)>> \o Split(SubSeq(s, i + 1, Len(s)), sep)

LowerLetters == "abcdefghijklmnopqrstuvwxyz"
UpperLetters == "ABCDEFGHIJKLMNOPQRSTUVWXYZ"
Digits == "0123456789"

\* unicode.ToTitle on ASCII.
ToTitle(c) ==
    LET i == Index(LowerLetters, c)
    IN  IF i = 0 THEN c ELSE At(UpperLetters, i)

\* isSeparator of strings.Title on ASCII: letters, digits and underscore are
\* not separators, everything else is.
isSeparator(c) ==
    ~ (Contains(LowerLetters, c) \/ Contains(UpperLetters, c)
         \/ Contains(Digits, c) \/ c = "_")

\* strings.Title(s): the first letter of every word mapped to title case.
RECURSIVE TitleFrom(_, _)
TitleFrom(s, i) ==
    IF i > Len(s) THEN ""
    ELSE (IF i = 1 \/ isSeparator(At(s, i - 1)) THEN ToTitle(At(s, i)) ELSE At(s, i))
         \o TitleFrom(s, i + 1)

Title(s) == TitleFrom(s, 1)

(***************************************************************************)
(* matchString: regexp.MatchString for the patterns main.go uses, which    *)
(* are made of literal characters, "." and "*".                            *)
(***************************************************************************)
\* The pattern compiled to a sequence of [c, any, star]: a literal c or any
\* character ("."), once or repeated ("*" after it).
RECURSIVE Compile(_, _)
Compile(m, i) ==
    IF i > Len(m) THEN <<>>
    ELSE LET star == i < Len(m) /\ At(m, i + 1) = "*"
         IN  <<[c |-> At(m, i), any |-> At(m, i) = ".", star |-> star]>>
             \o Compile(m, IF star THEN i + 2 ELSE i + 1)

\* "." matches every character but a newline.
MatchChar(tok, c) == IF tok.any THEN c # "\n" ELSE c = tok.c

RECURSIVE MatchHere(_, _, _, _)
MatchHere(pat, k, s, i) ==
    IF k > Len(pat) THEN TRUE
    ELSE IF pat[k].star
         THEN \E j \in i..(Len(s) + 1) :
                  /\ \A x \in i..(j - 1) : MatchChar(pat[k], At(s, x))
                  /\ MatchHere(pat, k + 1, s, j)
         ELSE /\ i <= Len(s)
              /\ MatchChar(pat[k], At(s, i))
              /\ MatchHere(pat, k + 1, s, i + 1)

\* The match is unanchored: it may start anywhere in s.
matchString(m, s) ==
    \E i \in 1..(Len(s) + 1) : MatchHere(Compile(m, 1), 1, s, i)

(***************************************************************************)
(* Decoded JSON values                                                     *)
(***************************************************************************)
Absent == [t |-> "absent", s |-> ""]
Null == [t |-> "null", s |-> ""]
Num == [t |-> "num", s |-> ""]
Str(s) == [t |-> "str", s |-> s]

\* v == "lit" on an interface{}: true only of the string itself.
Is(v, lit) == v.t = "str" /\ v.s = lit

\* v != nil on a map lookup: a missing key and a JSON null both give nil.
NotNil(v) == v.t \in {"num", "str"}

\* fmt.Sprintf("%s", v)
Sprintf(v) ==
    CASE v.t = "str" -> v.s
      [] v.t = "num" -> "%!s(float64=1)"
      [] OTHER -> "%!s(<nil>)"

\* The map of a nil map[string]interface{}: every lookup gives nil.
NilMap == [invokedBy |-> Absent, principalId |-> Absent, userName |-> Absent]

\* userIdentity, _ := record["userIdentity"].(map[string]interface{})
UserIdentity(record) ==
    IF record.userIdentity.t = "obj" THEN record.userIdentity.m ELSE NilMap

(***************************************************************************)
(* FilterRecords: the body of the loop over logFile.Records                *)
(***************************************************************************)
\* The cases of the switch on eventName, in source order.  test is how the
\* case reads the event name: "Title" is HasPrefix(Title(en), arg), "Prefix"
\* is HasPrefix(en, arg), "Suffix" is HasSuffix(en, arg), "Equal" is
\* en == arg.  body is what the case does: "continue", or the name of the
\* nested condition that decides it.
Case(test, arg, body) == [test |-> test, arg |-> arg, body |-> body]

EventNameCases == <<
    Case("Title", "Get", "continue"),
    Case("Title", "List", "continue"),
    Case("Title", "View", "continue"),
    Case("Prefix", "Head", "continue"),
    Case("Prefix", "Describe", "continue"),
    Case("Prefix", "Test", "continue"),
    Case("Prefix", "Download", "continue"),
    Case("Prefix", "Report", "continue"),
    Case("Prefix", "Poll", "continue"),
    Case("Prefix", "Verify", "continue"),
    Case("Prefix", "Skip", "continue"),
    Case("Prefix", "Count", "continue"),
    Case("Prefix", "Detect", "continue"),
    Case("Prefix", "Lookup", "continue"),
    Case("Equal", "ConsoleLogin", "continue"),
    Case("Suffix", "VirtualMFADevice", "continue"),
    Case("Equal", "CheckMfa", "continue"),
    Case("Equal", "CheckDomainAvailability", "continue"),
    Case("Equal", "Decrypt", "continue"),
    Case("Equal", "SetTaskStatus", "continue"),
    Case("Equal", "BatchGetQueryExecution", "continue"),
    Case("Equal", "QueryObjects", "continue"),
    Case("Prefix", "StartQuery", "continue"),
    Case("Prefix", "StopQuery", "continue"),
    Case("Prefix", "CancelQuery", "continue"),
    Case("Prefix", "BatchGet", "continue"),
    Case("Prefix", "Search", "continue"),
    Case("Equal", "GenerateServiceLastAccessedDetails", "continue"),
    Case("Equal", "REST.GET.OBJECT_LOCK_CONFIGURATION", "continue"),
    Case("Equal", "AssumeRoleWithWebIdentity", "continue"),
    Case("Equal", "PutQueryDefinition", "PutQueryDefinition"),
    Case("Equal", "PutObject", "PutObject"),
    Case("Equal", "AssumeRole", "AssumeRole") >>

\* CaseHolds without the strings.Title of the first three cases.
CaseHoldsExactCase(c, en) ==
    CASE c.test \in { "Title", "Prefix" } -> HasPrefix(en, c.arg)
      [] c.test = "Suffix" -> HasSuffix(en, c.arg)
      [] OTHER -> en = c.arg

CaseHolds(c, en) ==
    CASE c.test = "Title" -> HasPrefix(Title(en), c.arg)
      [] c.test = "Prefix" -> HasPrefix(en, c.arg)
      [] c.test = "Suffix" -> HasSuffix(en, c.arg)
      [] OTHER -> en = c.arg

\* The case the switch takes: the first one that holds; 0 when none does.
FirstCase(en) ==
    LET holds == { i \in 1..Len(EventNameCases) : CaseHolds(EventNameCases[i], en) }
    IN  IF holds = {} THEN 0 ELSE CHOOSE i \in holds : \A j \in holds : i <= j

\* case en == "PutQueryDefinition": continue when the event is CloudWatch Logs'.
PutQueryDefinitionContinues(record) == Is(record.eventSource, "logs.amazonaws.com")

\* case en == "PutObject": continue when requestParameters is an object whose
\* key is a string under the load balancers' log path.
PutObjectContinues(record) ==
    /\ record.requestParameters.t = "obj"
    /\ record.requestParameters.key.t = "str"
    /\ HasPrefix(record.requestParameters.key.s, "elb/AWSLogs")

AssumeRoleServices ==
    { "ecs-tasks.amazonaws.com", "ec2.amazonaws.com",
      "monitoring.rds.amazonaws.com", "lambda.amazonaws.com" }

\* AssumeRoleContinues without the switch on invokedBy.
AssumeRoleContinuesAnyInvoker(record, userIdentity) ==
    Is(record.userAgent, "Coral/Netty4")

\* case en == "AssumeRole": continue when an AWS service assumes the role.
AssumeRoleContinues(record, userIdentity) ==
    /\ Is(record.userAgent, "Coral/Netty4")
    /\ \E svc \in AssumeRoleServices : Is(userIdentity.invokedBy, svc)

\* if userIdentity["invokedBy"] == "AWS Internal" { continue }
InvokedByInternal(userIdentity) == Is(userIdentity.invokedBy, "AWS Internal")

\* switch en := record["eventName"].(string); {...}: "panic" when the type
\* assertion fails (eventName missing, null or not a string), "continue" when
\* the case taken continues the loop, "break" when the switch is left.
SwitchEventName(record, userIdentity) ==
    IF record.eventName.t # "str" THEN "panic"
    ELSE LET i == FirstCase(record.eventName.s)
             body == IF i = 0 THEN "break" ELSE EventNameCases[i].body
         IN  CASE body = "PutQueryDefinition" ->
                    IF PutQueryDefinitionContinues(record) THEN "continue" ELSE "break"
               [] body = "PutObject" ->
                    IF PutObjectContinues(record) THEN "continue" ELSE "break"
               [] body = "AssumeRole" ->
                    IF AssumeRoleContinues(record, userIdentity)
                    THEN "continue" ELSE "break"
               [] OTHER -> body

\* The cases of the switch on userAgent that break.
UserAgentBreaks(ua) ==
    \/ ua = "console.amazonaws.com"
    \/ ua = "signin.amazonaws.com"
    \/ ua = "Coral/Jakarta"
    \/ ua = "Coral/Netty4"
    \/ ua = "AWS CloudWatch Console"
    \/ HasPrefix(ua, "AWS Signin")
    \/ HasPrefix(ua, "S3Console/")
    \/ HasPrefix(ua, "[S3Console")
    \/ HasPrefix(ua, "Mozilla/")
    \/ matchString("console.*.amazonaws.com", ua)
    \/ matchString("signin.*.amazonaws.com", ua)
    \/ matchString("aws-internal*", ua)

\* if usa, ok := record["userAgent"]; ok { switch ua := usa.(string); {...} }:
\* the key missing skips the switch; a value that is no string (JSON null
\* included) fails the type assertion.
SwitchUserAgent(record) ==
    IF record.userAgent.t = "absent" THEN "break"
    ELSE IF record.userAgent.t # "str" THEN "panic"
    ELSE IF UserAgentBreaks(record.userAgent.s) THEN "break"
    ELSE "continue"

\* userName: principalId, cut to what strings.Split gives at index 1 when it
\* holds a colon, and replaced by userIdentity.userName when that is not nil.
UserName(userIdentity) ==
    LET principal == Sprintf(userIdentity.principalId)
        cut == IF Contains(principal, ":") THEN Split(principal, ":")[2]
               ELSE principal
    IN  IF NotNil(userIdentity.userName) THEN Sprintf(userIdentity.userName)
        ELSE cut

\* One iteration of the loop up to the log statement.  end is how the
\* iteration ends: "continue" (the record is dropped), "panic" (a type
\* assertion failed) or "event" (the record is logged and notified); at is the
\* statement that ended it and evaluated the statements evaluated before.
Iteration(end, at, evaluated, userName) ==
    [end |-> end, at |-> at, evaluated |-> evaluated, userName |-> userName]

\* FilterRecord with the check of invokedBy moved below the switch on
\* eventName.
FilterRecordEventNameFirst(record) ==
    LET userIdentity == UserIdentity(record)
        en == SwitchEventName(record, userIdentity)
        ua == SwitchUserAgent(record)
    IN  IF en # "break"
        THEN Iteration(en, "eventName", {"eventName"}, "")
        ELSE IF InvokedByInternal(userIdentity)
        THEN Iteration("continue", "invokedBy", {"eventName", "invokedBy"}, "")
        ELSE IF ua # "break"
        THEN Iteration(ua, "userAgent", {"invokedBy", "eventName", "userAgent"}, "")
        ELSE Iteration("event", "log", {"invokedBy", "eventName", "userAgent"},
                       UserName(userIdentity))

FilterRecord(record) ==
    LET userIdentity == UserIdentity(record)
        en == SwitchEventName(record, userIdentity)
        ua == SwitchUserAgent(record)
    IN  IF InvokedByInternal(userIdentity)
        THEN Iteration("continue", "invokedBy", {"invokedBy"}, "")
        ELSE IF en # "break"
        THEN Iteration(en, "eventName", {"invokedBy", "eventName"}, "")
        ELSE IF ua # "break"
        THEN Iteration(ua, "userAgent", {"invokedBy", "eventName", "userAgent"}, "")
        ELSE Iteration("event", "log", {"invokedBy", "eventName", "userAgent"},
                       UserName(userIdentity))

(***************************************************************************)
(* The records the model draws from                                        *)
(***************************************************************************)
Object(invokedBy, principalId, userName) ==
    [t |-> "obj",
     m |-> [invokedBy |-> invokedBy, principalId |-> principalId,
            userName |-> userName]]

\* userIdentity missing (t = "absent") or not a JSON object.
NoObject(t) == [t |-> t, m |-> NilMap]

Params(key) == [t |-> "obj", key |-> key]
NoParams == [t |-> "absent", key |-> Absent]

Record(userIdentity, eventName, eventSource, userAgent, requestParameters) ==
    [userIdentity |-> userIdentity, eventName |-> eventName,
     eventSource |-> eventSource, userAgent |-> userAgent,
     requestParameters |-> requestParameters]

Strs(S) == { Str(s) : s \in S }

EventNames ==
    { "GetObject", "getObject", "GETOBJECT", "Get", "Ge",
      "ListBuckets", "listBuckets", "ViewBilling", "viewBilling",
      "HeadObject", "headObject", "DescribeInstances", "describeInstances",
      "TestRole", "DownloadDBLogFilePortion", "ReportTaskProgress",
      "PollForTask", "VerifyEmailIdentity", "SkipWaitTimeForInstanceTermination",
      "CountOpenWorkflowExecutions", "DetectStackDrift", "LookupEvents",
      "lookupEvents", "SearchFaces", "BatchGetItem", "batchGetItem",
      "StartQueryExecution", "StopQueryExecution", "CancelQuery",
      "cancelQuery", "ReadPreset", "readPreset",
      "ConsoleLogin", "ConsoleLogin2", "CreateVirtualMFADevice", "CheckMfa",
      "CheckDomainAvailability", "Decrypt", "SetTaskStatus",
      "BatchGetQueryExecution", "QueryObjects",
      "GenerateServiceLastAccessedDetails",
      "REST.GET.OBJECT_LOCK_CONFIGURATION", "AssumeRoleWithWebIdentity",
      "PutQueryDefinition", "PutObject", "PutObjectAcl", "AssumeRole",
      "CreateUser", "TerminateInstances", "my getter", "" }

UserAgents ==
    { "console.amazonaws.com", "signin.amazonaws.com", "Coral/Jakarta",
      "Coral/Netty4", "AWS CloudWatch Console", "AWS Signin/1.0",
      "S3Console/0.4", "[S3Console/0.4]", "Mozilla/5.0 (X11)",
      "console.ec2.amazonaws.com", "signin.us-east-1.amazonaws.com",
      "aws-internal/3", "xaws-interna", "curl/7.64", "aws-cli/1.16.220",
      "coral/netty4", "Console.amazonaws.com", "Boto3/1.9 Mozilla/", "" }

Invokers ==
    { "AWS Internal", "ecs-tasks.amazonaws.com", "ec2.amazonaws.com",
      "monitoring.rds.amazonaws.com", "lambda.amazonaws.com",
      "some-other.amazonaws.com", "aws internal" }

NotStrings == { Absent, Null, Num }

Alice == Object(Absent, Str("AIDAEXAMPLE"), Str("alice"))

\* Every event name, with and without an internal invoker.
NameRecords ==
    { Record(Object(inv, Str("AIDAEXAMPLE"), Str("alice")), en, Absent, ua, NoParams) :
        inv \in { Absent, Str("AWS Internal") },
        en \in Strs(EventNames) \cup NotStrings,
        ua \in { Absent, Null, Str("console.amazonaws.com"), Str("curl/7.64") } }

\* Every user agent, for events no case of the switch on eventName drops.
AgentRecords ==
    { Record(Object(inv, Str("AIDAEXAMPLE"), Str("alice")), Str(en), Absent, ua, NoParams) :
        inv \in { Absent, Str("AWS Internal") },
        en \in { "CreateUser", "PutObject" },
        ua \in Strs(UserAgents) \cup NotStrings }

PutQueryDefinitionRecords ==
    { Record(Object(inv, Str("AIDAEXAMPLE"), Absent), Str("PutQueryDefinition"),
             es, ua, NoParams) :
        inv \in { Absent, Str("AWS Internal") },
        es \in Strs({ "logs.amazonaws.com", "s3.amazonaws.com", "logs.amazonaws.com." })
                 \cup { Absent, Num },
        ua \in { Absent, Null, Str("console.amazonaws.com"), Str("curl/7.64") } }

PutObjectRecords ==
    { Record(Object(inv, Str("AIDAEXAMPLE"), Absent), Str("PutObject"),
             Str("s3.amazonaws.com"), ua, rp) :
        inv \in { Absent, Str("AWS Internal") },
        ua \in { Absent, Null, Str("console.amazonaws.com"), Str("curl/7.64") },
        rp \in { Params(key) :
                   key \in Strs({ "elb/AWSLogs/123/x.log", "elb/AWSLogs", "elb/AWSLog",
                                  "logs/elb/AWSLogs/1", "" }) \cup NotStrings }
               \cup { NoParams, [t |-> "num", key |-> Absent] } }

AssumeRoleRecords ==
    { Record(Object(inv, Str("AROAEXAMPLE:session-bob"), Absent), Str("AssumeRole"),
             Str("sts.amazonaws.com"), ua, NoParams) :
        inv \in Strs(Invokers) \cup NotStrings,
        ua \in Strs({ "Coral/Netty4", "Coral/Jakarta", "console.amazonaws.com",
                      "curl/7.64" }) \cup NotStrings }

PrincipalIds ==
    Strs({ "AROAEXAMPLE:session-bob", "AIDAEXAMPLE", "AROAEXAMPLE:bob:admin",
           "AROAEXAMPLE:", ":", "123456789012:bob@example.com" }) \cup NotStrings

\* Every shape of userIdentity, for events that reach the log statement or
\* are dropped on the way.
IdentityRecords ==
    { Record(ui, Str("CreateUser"), Str("iam.amazonaws.com"), ua, NoParams) :
        ui \in { Object(Absent, pid, un) :
                   pid \in PrincipalIds,
                   un \in Strs({ "alice", "" }) \cup NotStrings }
               \cup { NoObject(t) : t \in { "absent", "null", "num" } },
        ua \in { Absent, Str("console.amazonaws.com"), Str("curl/7.64") } }

AllRecords ==
    NameRecords \cup AgentRecords \cup PutQueryDefinitionRecords
        \cup PutObjectRecords \cup AssumeRoleRecords \cup IdentityRecords

\* A few records of every kind, for the runs over whole S3 events.
CoreRecords ==
    { Record(Alice, Str("CreateUser"), Str("iam.amazonaws.com"),
             Str("console.amazonaws.com"), NoParams),
      Record(Object(Absent, Str("AROAEXAMPLE:session-bob"), Absent),
             Str("DeleteBucket"), Str("s3.amazonaws.com"), Absent, NoParams),
      Record(Alice, Str("GetObject"), Str("s3.amazonaws.com"),
             Str("console.amazonaws.com"), NoParams),
      Record(Alice, Str("CreateUser"), Str("iam.amazonaws.com"),
             Str("curl/7.64"), NoParams),
      Record(Object(Str("AWS Internal"), Str("AIDAEXAMPLE"), Absent),
             Str("CreateGrant"), Str("kms.amazonaws.com"), Absent, NoParams),
      Record(Alice, Absent, Str("iam.amazonaws.com"),
             Str("console.amazonaws.com"), NoParams) }

\* LogsEvent with the log statement moved ahead of the filter: every record
\* whose iteration ends is logged.
LogsEventAlways(it) == it.end # "panic"

\* The log statement and the webhook block are reached by the iterations
\* that no continue and no panic ended.
LogsEvent(it) == it.end = "event"

\* The records with the iteration FilterRecord gives each, evaluated once.
Run(record) == [record |-> record, it |-> FilterRecord(record)]
AllRuns == { Run(record) : record \in AllRecords }
CoreRuns == { Run(record) : record \in CoreRecords }

(***************************************************************************)
(* Errors, the S3 object store and the Slack webhook                       *)
(***************************************************************************)
NilError == [isNil |-> TRUE, msg |-> ""]
Error(msg) == [isNil |-> FALSE, msg |-> msg]

\* fmt.Errorf("%v: %v", s3Object, err)
Errorf(s3Object, err) == Error(s3Object \o ": " \o err.msg)

\* Object keys of the S3 records: CloudTrail logs, digests and Config
\* snapshots, and keys that only resemble the latter two.
Keys ==
    { "AWSLogs/1/CloudTrail/a.json.gz",
      "AWSLogs/1/CloudTrail-Digest/d.json.gz",
      "AWSLogs/1/Config/s.json.gz",
      "CloudTrail-Digest/config/notes.json" }

FileKeys ==
    { "AWSLogs/1/CloudTrail/a.json.gz",
      "AWSLogs/1/CloudTrail-Digest/d.json.gz" }

\* What s3Client.GetObject answers: an error (an awserr.Error or another
\* one), or an object with its content type and the state of its body.
GetObjectError(kind) == [err |-> kind, contentType |-> "", body |-> ""]
GetObjectOutput(contentType, body) ==
    [err |-> "", contentType |-> contentType, body |-> body]

GetObjectAnswers ==
    { GetObjectError(kind) : kind \in { "awserr", "other" } }
      \cup { GetObjectOutput(ct, body) :
               ct \in { "application/x-gzip", "application/json" },
               body \in { "records", "not json" } }
      \cup { GetObjectOutput("application/x-gzip", "not gzip") }

\* fetchLogFromS3 without the test for Config snapshots.
fetchLogFromS3DigestOnly(s3Object, answer) ==
    IF Contains(s3Object, "/CloudTrail-Digest/")
    THEN [called |-> FALSE, obj |-> FALSE, err |-> NilError]
    ELSE IF answer.err # ""
    THEN [called |-> TRUE, obj |-> FALSE, err |-> Error("AWS Error: AccessDenied")]
    ELSE [called |-> TRUE, obj |-> TRUE, err |-> NilError]

\* fetchLogFromS3: no call of GetObject for a digest or a Config key.
\* called says whether GetObject was called, obj whether an object comes back.
fetchLogFromS3(s3Object, answer) ==
    IF Contains(s3Object, "/CloudTrail-Digest/") \/ Contains(s3Object, "/Config/")
    THEN [called |-> FALSE, obj |-> FALSE, err |-> NilError]
    ELSE IF answer.err = "awserr"
    THEN [called |-> TRUE, obj |-> FALSE, err |-> Error("AWS Error: AccessDenied")]
    ELSE IF answer.err # ""
    THEN [called |-> TRUE, obj |-> FALSE,
          err |-> Error("Error getting S3 Object: timeout")]
    ELSE [called |-> TRUE, obj |-> TRUE, err |-> NilError]

\* readLogFile: the error of the gzip reader or of json.Unmarshal, or nil
\* with the decoded file.
readLogFile(object) ==
    IF object.contentType = "application/x-gzip" /\ object.body = "not gzip"
    THEN Error("extracting json.gz file: gzip: invalid header")
    ELSE IF object.body # "records"
    THEN Error("unmarshalling s3 object to CloudTrailFile: invalid character")
    ELSE NilError

\* What the webhook answers: no answer at all, or a response body.
SlackAnswers == { "unreachable", "ok", "invalid_payload" }

\* SendSlackNotification: an error unless the response body is "ok".
SendSlackNotification(answer) ==
    IF answer = "unreachable" THEN Error("Post: dial tcp: connection refused")
    ELSE IF answer # "ok"
    THEN Error("Non-ok response returned from Slack: " \o answer)
    ELSE NilError

\* S3HandlerReturns with the error of Stream only logged.
S3HandlerIgnoresError(err) == FALSE

\* The loop of S3Handler after a call of Stream: it returns the error, or
\* goes on with the next S3 record.
S3HandlerReturns(err) == ~ err.isNil

\* FilterRecordsError with the error of SendSlackNotification returned.
FilterRecordsReturnsSendError(sendErr) == sendErr

\* Stream after FilterRecords returned: FilterRecords returns nil, whatever
\* SendSlackNotification returned, and so does Stream.
FilterRecordsError(sendErr) == NilError

(***************************************************************************)
(* State                                                                   *)
(***************************************************************************)
VARIABLES
    webhook,     \* SLACK_WEBHOOK is set
    ri,          \* S3 records of the event handed to Stream so far
    cur,         \* the S3 record last handed to Stream: its key, how it went
    rj,          \* records of the current file FilterRecords has taken
    pc,          \* "handler", "filter", "returned" or "panicked"
    err,         \* what S3Handler returned
    fetched,     \* the S3 records GetObject was called for, in order
    classified,  \* the records whose iteration ended (not panicked), in order
    logs,        \* the records logged as "Event", in order
    sent,        \* the records posted to the webhook and whether it went well
    last         \* the record of the last iteration and how it went

vars == <<webhook, ri, cur, rj, pc, err, fetched, classified, logs, sent, last>>

NoRef == [key |-> "", went |-> "none"]
NoRecord ==
    [ref |-> 0, idx |-> 0,
     record |-> Record(NoObject("absent"), Absent, Absent, Absent, NoParams),
     it |-> Iteration("none", "none", {}, ""),
     fields |-> [logged |-> FALSE, user_name |-> ""],
     sendErr |-> NilError]

Init ==
    /\ webhook \in BOOLEAN
    /\ ri = 0
    /\ cur = NoRef
    /\ rj = 0
    /\ pc = "handler"
    /\ err = NilError
    /\ fetched = <<>>
    /\ classified = <<>>
    /\ logs = <<>>
    /\ sent = <<>>
    /\ last = NoRecord

(***************************************************************************)
(* Actions.  The S3 event and the log files are read as they are walked:   *)
(* each loop either finds one more element or ends.                        *)
(***************************************************************************)
\* S3Handler takes the next S3 record and calls Stream: fetchLogFromS3, then
\* readLogFile.  A skipped key returns nil to the loop, an error makes
\* S3Handler return it, a decoded file enters FilterRecords.
Stream(keys, maxrefs) ==
    /\ pc = "handler"
    /\ ri < maxrefs
    /\ \E key \in keys, answer \in GetObjectAnswers :
         LET f == fetchLogFromS3(key, answer)
             r == readLogFile(answer)
             streamErr == IF ~ f.err.isNil THEN Errorf(key, f.err)
                          ELSE IF ~ f.obj THEN NilError
                          ELSE IF ~ r.isNil THEN Errorf(key, r)
                          ELSE NilError
             went == IF ~ f.called THEN "skipped"
                     ELSE IF ~ f.err.isNil THEN "fetch failed"
                     ELSE IF ~ r.isNil THEN "parse failed"
                     ELSE "parsed"
         IN  /\ ri' = ri + 1
             /\ cur' = [key |-> key, went |-> went]
             /\ rj' = 0
             /\ fetched' = IF f.called THEN Append(fetched, ri + 1) ELSE fetched
             /\ IF S3HandlerReturns(streamErr)
                THEN pc' = "returned" /\ err' = streamErr
                ELSE /\ pc' = IF went = "parsed" THEN "filter" ELSE "handler"
                     /\ err' = err
    /\ UNCHANGED <<webhook, classified, logs, sent, last>>

\* One iteration of the loop of FilterRecords: the record is dropped, or
\* logged and, with SLACK_WEBHOOK set, posted to the webhook; a failed type
\* assertion panics.
FilterRecords(runs, maxrecords) ==
    /\ pc = "filter"
    /\ rj < maxrecords
    /\ \E run \in runs :
         \E answer \in IF LogsEvent(run.it) /\ webhook THEN SlackAnswers ELSE { "" } :
           LET it == run.it
               pos == [ref |-> ri, idx |-> rj + 1]
               logged == LogsEvent(it)
               posted == logged /\ webhook
               sendErr == IF posted THEN SendSlackNotification(answer) ELSE NilError
               ret == FilterRecordsError(sendErr)
           IN  /\ rj' = rj + 1
               /\ last' = [ref |-> ri, idx |-> rj + 1,
                           record |-> run.record, it |-> it,
                           fields |-> [logged |-> logged,
                                       user_name |-> IF logged THEN it.userName ELSE ""],
                           sendErr |-> sendErr]
               /\ classified' = IF it.end = "panic" THEN classified
                                ELSE Append(classified,
                                            [ref |-> ri, idx |-> rj + 1, end |-> it.end])
               /\ logs' = IF logged THEN Append(logs, pos) ELSE logs
               /\ sent' = IF posted
                          THEN Append(sent, [ref |-> ri, idx |-> rj + 1,
                                             ok |-> sendErr.isNil])
                          ELSE sent
               /\ IF it.end = "panic"
                  THEN pc' = "panicked" /\ err' = err
                  ELSE IF ~ ret.isNil /\ S3HandlerReturns(Errorf(cur.key, ret))
                  THEN pc' = "returned" /\ err' = Errorf(cur.key, ret)
                  ELSE pc' = "filter" /\ err' = err
    /\ UNCHANGED <<webhook, ri, cur, fetched>>

\* The loop of FilterRecords ends: FilterRecords returns nil, Stream returns
\* nil and S3Handler goes on with the next S3 record.
FilterRecordsDone ==
    /\ pc = "filter"
    /\ pc' = "handler"
    /\ UNCHANGED <<webhook, ri, cur, rj, err, fetched, classified, logs, sent, last>>

\* The loop of S3Handler ends: it returns nil.
S3HandlerDone ==
    /\ pc = "handler"
    /\ pc' = "returned"
    /\ err' = NilError
    /\ UNCHANGED <<webhook, ri, cur, rj, fetched, classified, logs, sent, last>>

\* Whole S3 events, over a few records of every kind.
Next ==
    \/ Stream(Keys, MaxRefs)
    \/ FilterRecords(CoreRuns, MaxRecords)
    \/ FilterRecordsDone
    \/ S3HandlerDone

Spec == Init /\ [][Next]_vars

\* An S3 event of one log file, over every record of the model.
NextRecords ==
    \/ Stream(FileKeys, 1)
    \/ FilterRecords(AllRuns, MaxFileRecords)
    \/ FilterRecordsDone
    \/ S3HandlerDone

SpecRecords == Init /\ [][NextRecords]_vars

(***************************************************************************)
(* Properties                                                              *)
(***************************************************************************)
\* The position of the record of the last iteration.
LastPos == [ref |-> last.ref, idx |-> last.idx]

\* An iteration has run, and last describes it.
Iterated == last.idx > 0

Count(seq, pos) ==
    Cardinality({ k \in 1..Len(seq) : seq[k].ref = pos.ref /\ seq[k].idx = pos.idx })

Pos(e) == [ref |-> e.ref, idx |-> e.idx]

\* The positions of the records of seq whose verdict is Notify, in order.
RECURSIVE Notified(_)
Notified(seq) ==
    IF seq = <<>> THEN <<>>
    ELSE (IF Head(seq).end = "event" THEN <<Pos(Head(seq))>> ELSE <<>>)
         \o Notified(Tail(seq))

C2_MalformedRecordNeverPanics ==
    /\ pc # "panicked"
    /\ Iterated => last.it.end \in { "continue", "event" }

\* The name C3 describes: userName when it is not nil, else everything after
\* the first colon of principalId, else principalId.
ClaimedUserName(userIdentity) ==
    LET principal == Sprintf(userIdentity.principalId)
        i == Index(principal, ":")
    IN  IF NotNil(userIdentity.userName) THEN Sprintf(userIdentity.userName)
        ELSE IF i # 0 THEN SubSeq(principal, i + 1, Len(principal))
        ELSE principal

\* C3 as stated: the user_name of a logged record is userName, else the whole
\* of principalId after its first colon, else principalId.
C3_UserNameAfterFirstColon ==
    Iterated /\ last.fields.logged =>
        last.fields.user_name = ClaimedUserName(UserIdentity(last.record))

ToLower(c) ==
    LET i == Index(UpperLetters, c)
    IN  IF i = 0 THEN c ELSE At(LowerLetters, i)

LowerFirst(s) == ToLower(At(s, 1)) \o SubSeq(s, 2, Len(s))

\* The prefixes C4 lists, "read" aside: those matched whatever the case of
\* the first letter, and those matched in exact case.
EitherCasePrefixes == { "List", "View" }
ExactCasePrefixes ==
    { "Head", "Describe", "Test", "Download", "Report", "Poll", "Verify", "Skip",
      "Count", "Detect", "Lookup", "Search", "BatchGet", "StartQuery",
      "StopQuery", "CancelQuery" }

BeginsWithListed(en, eitherCase) ==
    \/ \E p \in eitherCase : HasPrefix(en, p) \/ HasPrefix(en, LowerFirst(p))
    \/ \E p \in ExactCasePrefixes : HasPrefix(en, p)

\* The record is dropped, whatever its other fields are.
Suppressed == last.it.end = "continue" /\ ~ last.fields.logged /\ Count(sent, LastPos) = 0

\* C4 as stated: a record whose event name begins with read, list, view (in
\* either case of the first letter) or with one of the exact-case prefixes
\* is dropped.
C4_ListedPrefixesSuppressed ==
    Iterated /\ last.record.eventName.t = "str"
      /\ BeginsWithListed(last.record.eventName.s, EitherCasePrefixes \cup { "Read" })
      => Suppressed

\* C4 amended: the first prefix is Get, not Read.  A record whose event name
\* begins with Get, List or View (in either case of the first letter) or with
\* one of the exact-case prefixes is dropped whatever its other fields are;
\* an exact-case prefix with its first letter in lower case is not dropped by
\* the switch on eventName.
C4_GetListViewPrefixesSuppressed ==
    Iterated /\ last.record.eventName.t = "str" =>
      /\ BeginsWithListed(last.record.eventName.s, EitherCasePrefixes \cup { "Get" })
           => Suppressed
      /\ (\E p \in ExactCasePrefixes : HasPrefix(last.record.eventName.s, LowerFirst(p)))
           => last.it.at # "eventName"

\* listBuckets from the console is dropped by the switch on eventName.
C4_Witness ==
    /\ Iterated
    /\ last.record.eventName = Str("listBuckets")
    /\ last.record.userAgent = Str("console.amazonaws.com")
    /\ ~ InvokedByInternal(UserIdentity(last.record))
    /\ last.it.at = "eventName"
    /\ Suppressed

\* The invoker is the sentinel of AWS's own calls.
InternalInvoker(record) ==
    /\ record.userIdentity.t = "obj"
    /\ record.userIdentity.m.invokedBy = Str("AWS Internal")

\* What the switch on userAgent makes of the record: dropped, logged, or a
\* panic when userAgent is present and no string.
UserAgentEnd(record) ==
    LET c == SwitchUserAgent(record) IN IF c = "break" THEN "event" ELSE c

\* The sub-predicates of the three conditional cases, as C5 states them.
ClaimedSubPredicate(record) ==
    CASE record.eventName = Str("PutQueryDefinition") ->
           record.eventSource = Str("logs.amazonaws.com")
      [] record.eventName = Str("PutObject") ->
           /\ record.requestParameters.t = "obj"
           /\ record.requestParameters.key.t = "str"
           /\ HasPrefix(record.requestParameters.key.s, "elb/AWSLogs")
      [] record.eventName = Str("AssumeRole") ->
           /\ record.userAgent = Str("Coral/Netty4")
           /\ record.userIdentity.t = "obj"
           /\ record.userIdentity.m.invokedBy \in
                Strs({ "ecs-tasks.amazonaws.com", "ec2.amazonaws.com",
                       "monitoring.rds.amazonaws.com", "lambda.amazonaws.com" })
      [] OTHER -> FALSE

C6_UserAgentDecides ==
    Iterated /\ last.it.at \notin { "invokedBy", "eventName" } =>
        LET ua == last.record.userAgent
            allowed == ua.t = "str" /\ UserAgentBreaks(ua.s)
        IN  /\ ua.t = "absent" => last.it.end = "event" /\ last.fields.logged
            /\ ua.t # "absent" /\ allowed => last.it.end = "event" /\ last.fields.logged
            /\ ua.t # "absent" /\ ~ allowed => Suppressed

Failed(went) == went \in { "fetch failed", "parse failed" }

NothingOf(ref) ==
    /\ \A k \in 1..Len(classified) : classified[k].ref # ref
    /\ \A k \in 1..Len(logs) : logs[k].ref # ref
    /\ \A k \in 1..Len(sent) : sent[k].ref # ref

\* C7: for an S3 record whose key holds "/CloudTrail-Digest/" or "/Config/",
\* Stream calls no GetObject, no record of it is classified, logged or
\* posted, no error is returned, and S3Handler is back in its loop.
C7_DigestAndConfigKeysSkipped ==
    Contains(cur.key, "/CloudTrail-Digest/") \/ Contains(cur.key, "/Config/") =>
        /\ cur.went = "skipped"
        /\ \A k \in 1..Len(fetched) : fetched[k] # ri
        /\ NothingOf(ri)
        /\ err.isNil
        /\ pc \in { "handler", "returned" }

\* A Config snapshot skipped as the second S3 record, after a first one whose
\* file was fetched and had a record logged; S3Handler is in its loop.
C7_Witness ==
    /\ ri = 2
    /\ Contains(cur.key, "/Config/")
    /\ cur.went = "skipped"
    /\ fetched = <<1>>
    /\ Len(logs) = 1
    /\ pc = "handler"

\* C8: S3 records are taken in order, and a failed fetch or parse ends the
\* invocation: S3Handler has returned an error that names the key, no record
\* of that S3 record was classified, logged or posted, and no later S3
\* record was fetched or processed.
C8_FetchOrParseFailureStops ==
    /\ \A k \in 1..(Len(fetched) - 1) : fetched[k] < fetched[k + 1]
    /\ \A k \in 1..Len(fetched) : fetched[k] <= ri
    /\ \A k \in 1..(Len(classified) - 1) :
         \/ classified[k].ref < classified[k + 1].ref
         \/ /\ classified[k].ref = classified[k + 1].ref
            /\ classified[k].idx < classified[k + 1].idx
    /\ \A k \in 1..Len(classified) : classified[k].ref <= ri
    /\ Failed(cur.went) =>
         /\ pc = "returned"
         /\ ~ err.isNil
         /\ HasPrefix(err.msg, cur.key \o ": ")
         /\ NothingOf(ri)
         /\ fetched # <<>> /\ fetched[Len(fetched)] = ri
    /\ ~ err.isNil => pc = "returned" /\ Failed(cur.went)

\* The second S3 record fails to parse after the first one had a record
\* logged: S3Handler returned the error.
C8_Witness ==
    /\ pc = "returned"
    /\ ~ err.isNil
    /\ cur.went = "parse failed"
    /\ ri = 2
    /\ fetched = <<1, 2>>
    /\ Len(logs) >= 1

Ended(ref) == Cardinality({ k \in 1..Len(classified) : classified[k].ref = ref })

C10_InternalInvokerSuppressedFirst ==
    Iterated /\ InternalInvoker(last.record) =>
        /\ Suppressed
        /\ last.it.at = "invokedBy"
        /\ last.it.evaluated = { "invokedBy" }

\* An internal record with no eventName and a null userAgent is dropped:
\* the type assertions of the two switches are not reached.
C10_Witness ==
    /\ Iterated
    /\ InternalInvoker(last.record)
    /\ last.record.eventName = Absent
    /\ last.record.userAgent = Null
    /\ last.it.end = "continue"
    /\ pc = "filter"

====
